---- MODULE Spec2Model ----
(***************************************************************************)
(* A model of the LDtk project loader and spawner of kaplayjs/ldtk         *)
(* (class LDTKProject, src/test/game.ts lines 550-966, with its helper     *)
(* classes LDTKAssetStorage, LDTKEntity and LDTKIntGridTile).              *)
(*                                                                         *)
(* The state is the fields of one LDTKProject instance, the position of    *)
(* its asynchronous load, and what the host can observe of it: the         *)
(* callbacks invoked and errors reported by the most recent spawn(), the   *)
(* number of draw callbacks registered on the root entity, and how the     *)
(* most recent load and spawn ended.  The document served to the loader    *)
(* (variable file) is chosen in Init and never changes.                    *)
(***************************************************************************)
EXTENDS Integers, Sequences, FiniteSets, TLC

VARIABLES
    file,                 \* the project document the host supplies / the server serves
    options,              \* LDTKOptions given to the constructor
    worldIndex,           \* this.worldIndex
    levelOffset,          \* this.levelOffset
    data,                 \* this.data (Undefined until loadFromObject assigns it)
    assets,               \* this.assets.assets, in insertion order
    entities,             \* this.entities: type name -> {init, postInit?}
    intGridTiles,         \* this.intGridTiles
    postProcessEntities,  \* this.postProcessEntities, in Object.values order
    layout,               \* this.layout
    loadPc,               \* where the load in flight is suspended
    loadIdx,              \* index into LDTKLLevels of the level being fetched
    fetched,              \* the local array levels of loadFromObject
    loadResult,           \* how the most recent load call ended
    everLoaded,           \* whether some load call has run to its end
    calls,                \* callbacks, draw registrations and errors of the last spawn()
    loadErrors,           \* the errors the most recent load call reported
    draws,                \* number of draw callbacks registered on rootEntity
    spawnResult,          \* how the most recent spawn() ended
    ldtklLevels,          \* the local array LDTKLLevels of loadFromObject
    walked,               \* the layers the last spawn() processed, in order
    lastRegistered,       \* type name -> the arguments of the latest registerEntity call
    postInitDropped,      \* type names registered with a post-init earlier, without one last
    nSpawn, nLoad         \* spawn() and load calls made so far (bounded)

vars == <<file, options, worldIndex, levelOffset, data, assets, entities,
          intGridTiles, postProcessEntities, layout, loadPc, loadIdx, fetched,
          loadResult, everLoaded, calls, loadErrors, draws, spawnResult,
          ldtklLevels, walked, lastRegistered, postInitDropped, nSpawn, nLoad>>

\* ------------------------------------------------------------------ bounds
MaxSpawns   == 2
MaxLoads    == 1
MaxHandlers == 1
MaxLevels   == 3

\* --------------------------------------------------------- program constants
DefaultLevelOffset == 48

\* ------------------------------------------------------------- small helpers
None == "none"

Vec2(x, y) == [x |-> x, y |-> y]

Vec2Add(a, b) == Vec2(a.x + b.x, a.y + b.y)

Range(s) == { s[i] : i \in 1..Len(s) }

RECURSIVE Reverse(_)
\* Array.prototype.reverse
Reverse(s) == IF s = <<>> THEN <<>> ELSE Append(Reverse(Tail(s)), Head(s))

\* An optional number is <<>> (undefined) or <<n>>.  Its boolean coercion:
\* undefined and 0 are falsy.
Truthy(opt) == opt # <<>> /\ opt[1] # 0

\* ------------------------------------------------------------------ formats
WorldLayouts == {"Free", "GridVania", "LinearHorizontal", "LinearVertical"}

Field(n, v) == [identifier |-> n, value |-> v]

EntityInstance(name, iid, x, y, fs) ==
    [identifier |-> name, iid |-> iid, px |-> <<x, y>>, fieldInstances |-> fs]

Tile(x, y) == [px |-> <<x, y>>]

Layer(id, type, csv, ents, tiles, path) ==
    [identifier |-> id, type |-> type, gridSize |-> 16, cWid |-> 2,
     intGridCsv |-> csv, entityInstances |-> ents,
     gridTiles |-> IF type = "Tiles" THEN tiles ELSE <<>>,
     autoLayerTiles |-> IF type = "AutoLayer" THEN tiles ELSE <<>>,
     tilesetRelPath |-> path]

Level(iid, w, h, wx, wy, depth, bg, fs, layers) ==
    [iid |-> iid, pxWid |-> w, pxHei |-> h, worldX |-> wx, worldY |-> wy,
     worldDepth |-> depth, bgRelPath |-> bg, externalRelPath |-> None,
     fieldInstances |-> fs, layersNull |-> FALSE, layerInstances |-> layers]

\* ------------------------------------------------------- the level library
\* Three levels, of pixel widths 100, 150 and 200.  lvA and lvB share a depth;
\* two entity instances carry ids that are canonical array indices ("10", "2"),
\* the others are UUID-like.
LevelA ==
    Level("lvA", 100, 60, 500, 40, 0, FALSE, <<Field("Speed", 1)>>,
          << Layer("EntsA", "Entities", <<>>,
                   << EntityInstance("Player", "uuid-p", 8, 8, <<Field("HP", 3)>>),
                      EntityInstance("Enemy", "10", 24, 8, <<Field("Speed", 7)>>) >>,
                   <<>>, None),
             Layer("GridA", "IntGrid", <<1, 0, 2>>, <<>>, <<>>, None) >>)

LevelB ==
    Level("lvB", 150, 80, 20, 300, 0, TRUE, <<>>,
          << Layer("TilesB", "Tiles", <<>>, <<>>, <<Tile(0, 0), Tile(16, 0)>>, "tiles.png"),
             Layer("EntsB", "Entities", <<>>,
                   << EntityInstance("Enemy", "2", 0, 16, <<>>),
                      EntityInstance("Ghost", "uuid-g", 16, 16, <<Field("HP", 9)>>) >>,
                   <<>>, None) >>)

LevelC ==
    Level("lvC", 200, 40, 7, 9, 1, FALSE, <<Field("Speed", 2)>>,
          << Layer("AutoC", "AutoLayer", <<>>, <<>>, <<Tile(32, 0)>>, "missing.png"),
             Layer("EntsC", "Entities", <<>>,
                   << EntityInstance("Player", "uuid-q", 4, 4, <<>>) >>,
                   <<>>, None) >>)

LevelLib == <<LevelA, LevelB, LevelC>>

\* Level lists without repetition (the iid of a level is unique in a document).
LevelOrders ==
    { o \in UNION { [1..n -> 1..Len(LevelLib)] : n \in 1..MaxLevels } :
        \A i, j \in DOMAIN o : i # j => o[i] # o[j] }

LevelPath(level) == level.iid

\* The stub a split project keeps in the project file for an external level.
Stub(level) ==
    [level EXCEPT !.layersNull = TRUE, !.layerInstances = <<>>,
                  !.externalRelPath = LevelPath(level)]

\* The body the server holds for an external level file.
LevelFile(path) == CHOOSE l \in Range(LevelLib) : LevelPath(l) = path

\* Three tileset definitions of distinct uids: one without an image of its own
\* (relPath null), and two slicing the same image.
Tilesets ==
    << [relPath |-> "tiles.png", uid |-> 1],
       [relPath |-> None, uid |-> 2],
       [relPath |-> "tiles.png", uid |-> 3] >>

Project(order, worldLayout, external, explicit) ==
    LET full   == [i \in DOMAIN order |-> LevelLib[order[i]]]
        levels == IF external THEN [i \in DOMAIN full |-> Stub(full[i])] ELSE full
    IN  [worlds |-> IF explicit
                    THEN << [worldLayout |-> worldLayout, levels |-> levels] >>
                    ELSE <<>>,
         levels |-> IF explicit THEN <<>> ELSE levels,
         worldLayout |-> IF explicit THEN None ELSE worldLayout,
         externalLevels |-> external,
         defs |-> [tilesets |-> Tilesets]]

\* The level lists of the split projects: the library's order, as the order of
\* the stubs only decides the order of the fetches.
ExternalOrders == { o \in LevelOrders : \A i, j \in DOMAIN o : i < j => o[i] < o[j] }

Projects ==
    { Project(o, l, FALSE, FALSE) : o \in LevelOrders, l \in WorldLayouts }
    \cup { Project(o, "Free", TRUE, FALSE) : o \in ExternalOrders }
    \cup { Project(o, "LinearVertical", FALSE, TRUE) : o \in LevelOrders }

\* this.data before any load
Undefined == [undefined |-> TRUE]

\* ------------------------------------------- a JS object as an ordered table
\* Own property keys come out with the canonical array indices first, in
\* ascending numeric order, and then the other strings in insertion order.
\* ArrayIndex gives the number each array-index key of the model denotes.
ArrayIndex == ("2" :> 2) @@ ("10" :> 10)

IsArrayIndex(key) == key \in DOMAIN ArrayIndex

HasKey(obj, key) == \E i \in DOMAIN obj : obj[i].key = key

InsertAt(s, i, e) == SubSeq(s, 1, i - 1) \o <<e>> \o SubSeq(s, i, Len(s))

\* Where a new key lands among the entries of obj.
KeySlot(obj, key) ==
    IF IsArrayIndex(key)
    THEN LET later == { i \in DOMAIN obj : \/ ~IsArrayIndex(obj[i].key)
                                          \/ ArrayIndex[obj[i].key] > ArrayIndex[key] }
         IN  IF later = {} THEN Len(obj) + 1
             ELSE CHOOSE i \in later : \A j \in later : i <= j
    ELSE Len(obj) + 1

\* obj[key] = value
ObjectSet(obj, key, value) ==
    IF HasKey(obj, key)
    THEN [i \in DOMAIN obj |->
            IF obj[i].key = key THEN [key |-> key, value |-> value] ELSE obj[i]]
    ELSE InsertAt(obj, KeySlot(obj, key), [key |-> key, value |-> value])

\* ------------------------------------------------------------ asset storage
AssetExists(store, name) == \E i \in DOMAIN store : store[i].name = name

AddAsset(store, name, asset) ==
    IF AssetExists(store, name) THEN store ELSE Append(store, asset)

\* this.assets[name], or Undefined
GetAsset(store, name) ==
    IF AssetExists(store, name)
    THEN store[CHOOSE i \in DOMAIN store : store[i].name = name]
    ELSE Undefined

\* Object.values(this.assets).find((asset) => asset.uid === uid), or Undefined
GetAssetByUid(store, uid) ==
    LET found == { i \in DOMAIN store : store[i].uid = uid }
    IN  IF found = {} THEN Undefined
        ELSE store[CHOOSE i \in found : \A j \in found : i <= j]

RECURSIVE LoadTileSetsFrom(_, _, _)
LoadTileSetsFrom(i, tilesets, store) ==
    IF i > Len(tilesets) THEN store
    ELSE LET tileset == tilesets[i]
         IN  LoadTileSetsFrom(i + 1, tilesets,
                 IF tileset.relPath # None
                 THEN AddAsset(store, tileset.relPath,
                               [name |-> tileset.relPath, uid |-> tileset.uid])
                 ELSE store)

LoadTileSets(doc, store) == LoadTileSetsFrom(1, doc.defs.tilesets, store)

\* ------------------------------------------------- what the host observes
NoFields == [n \in {} |-> 0]

NoPos == Vec2(0, 0)

Event(kind, fn, name, id, pos, value, fields, obj) ==
    [kind |-> kind, fn |-> fn, name |-> name, id |-> id, pos |-> pos,
     value |-> value, fields |-> fields, obj |-> obj]

\* a callback receiving an LDTKEntity
EntityCall(kind, fn, entity) ==
    Event(kind, fn, entity.name, entity.id, entity.pos, 0, entity.fields, entity.obj)

\* the report of new Error(msg), msg naming subject
ErrorEvent(msg, subject) == Event("error", None, msg, subject, NoPos, 0, NoFields, 0)

\* this.throwError(new Error(msg)): reports, and raises nothing
ThrowError(w, msg, subject) == [w EXCEPT !.calls = Append(@, ErrorEvent(msg, subject))]

\* this.rootEntity.onDraw(...)
OnDraw(w, what, id, pos) ==
    [w EXCEPT !.calls = Append(@, Event("draw", None, what, id, pos, 0, NoFields, 0)),
              !.draws = @ + 1]

\* -------------------------------------------------------- loadLayerEntities
RECURSIVE FieldsReduceFrom(_, _, _)
FieldsReduceFrom(i, fields, acc) ==
    IF i > Len(fields) THEN acc
    ELSE LET field == fields[i]
         IN  FieldsReduceFrom(i + 1, fields,
                 [n \in DOMAIN acc \cup {field.identifier} |->
                     IF n = field.identifier THEN field.value ELSE acc[n]])

\* fields.reduce((acc, field) => ({...acc, [field.__identifier]: field.__value}), {})
FieldsReduce(fields) == FieldsReduceFrom(1, fields, NoFields)

\* const fields = level.fieldInstances; fields.push(...ent.fieldInstances)
\* fields is the level's own array: the push lengthens level.fieldInstances.
PushFields(level, ent) ==
    [level EXCEPT !.fieldInstances = @ \o ent.fieldInstances]

\* PlaceEntity without the report for a type name nobody registered.
PlaceEntityUnreported(ent, levelPos, w) ==
    LET level  == PushFields(w.level, ent)
        entity == [name |-> ent.identifier,
                   pos |-> Vec2Add(Vec2(ent.px[1], ent.px[2]), levelPos),
                   id |-> ent.iid,
                   fields |-> FieldsReduce(level.fieldInstances),
                   obj |-> w.objs + 1]
        w1     == [w EXCEPT !.level = level, !.objs = @ + 1]
    IN  IF entity.name \in DOMAIN entities
        THEN LET entityScripts == entities[entity.name]
                 w2 == [w1 EXCEPT !.calls =
                           Append(@, EntityCall("init", entityScripts.init, entity))]
             IN  IF entityScripts.postInit # None
                 THEN [w2 EXCEPT !.ppe =
                          ObjectSet(@, entity.id,
                                    [postInit |-> entityScripts.postInit,
                                     entityClass |-> entity])]
                 ELSE w2
        ELSE w1

\* PlaceEntity running the post-init at once instead of deferring it.
PlaceEntityEager(ent, levelPos, w) ==
    LET level  == PushFields(w.level, ent)
        entity == [name |-> ent.identifier,
                   pos |-> Vec2Add(Vec2(ent.px[1], ent.px[2]), levelPos),
                   id |-> ent.iid,
                   fields |-> FieldsReduce(level.fieldInstances),
                   obj |-> w.objs + 1]
        w1     == [w EXCEPT !.level = level, !.objs = @ + 1]
    IN  IF entity.name \in DOMAIN entities
        THEN LET entityScripts == entities[entity.name]
                 w2 == [w1 EXCEPT !.calls =
                           Append(@, EntityCall("init", entityScripts.init, entity))]
             IN  IF entityScripts.postInit # None
                 THEN [w2 EXCEPT !.calls =
                          Append(@, EntityCall("postInit", entityScripts.postInit, entity))]
                 ELSE w2
        ELSE ThrowError(w1, "No entity registered", entity.name)

\* One turn of the loop of loadLayerEntities, on the walk state w
\* (w.level is the level being walked).
PlaceEntity(ent, levelPos, w) ==
    LET level  == PushFields(w.level, ent)
        fields == level.fieldInstances
        entity == [name |-> ent.identifier,
                   pos |-> Vec2Add(Vec2(ent.px[1], ent.px[2]), levelPos),
                   id |-> ent.iid,
                   fields |-> FieldsReduce(fields),
                   obj |-> w.objs + 1]
        w1     == [w EXCEPT !.level = level, !.objs = @ + 1]
    IN  IF entity.name \in DOMAIN entities
        THEN LET entityScripts == entities[entity.name]
                 w2 == [w1 EXCEPT !.calls =
                           Append(@, EntityCall("init", entityScripts.init, entity))]
             IN  IF entityScripts.postInit # None
                 THEN [w2 EXCEPT !.ppe =
                          ObjectSet(@, entity.id,
                                    [postInit |-> entityScripts.postInit,
                                     entityClass |-> entity])]
                 ELSE w2
        ELSE ThrowError(w1, "No entity registered", entity.name)

RECURSIVE LoadLayerEntitiesFrom(_, _, _, _)
LoadLayerEntitiesFrom(i, layer, levelPos, w) ==
    IF i > Len(layer.entityInstances) THEN w
    ELSE LoadLayerEntitiesFrom(i + 1, layer, levelPos,
                               PlaceEntity(layer.entityInstances[i], levelPos, w))

LoadLayerEntities(layer, levelPos, w) == LoadLayerEntitiesFrom(1, layer, levelPos, w)

\* ------------------------------------------------ postProcessEntitiesOnSpawn
RECURSIVE PostInitFrom(_, _)
PostInitFrom(i, w) ==
    IF i > Len(w.ppe) THEN w
    ELSE LET entity == w.ppe[i].value
         IN  PostInitFrom(i + 1,
                 [w EXCEPT !.calls =
                     Append(@, EntityCall("postInit", entity.postInit, entity.entityClass))])

\* PostProcessEntitiesOnSpawn leaving the deferred table as the walk filled it.
PostProcessEntitiesKept(w) == PostInitFrom(1, w)

PostProcessEntitiesOnSpawn(w) == [PostInitFrom(1, w) EXCEPT !.ppe = <<>>]

\* --------------------------------------------------------- loadIntGridTiles
\* The position of cell p (counted from 0) of the flat array.
IntGridPos(layer, p, levelPos) ==
    LET posMax == layer.cWid * layer.gridSize
        xPos   == (p * layer.gridSize) % posMax
        yPos   == ((p * layer.gridSize) \div posMax) * layer.gridSize
    IN  Vec2Add(Vec2(xPos, yPos), levelPos)

RECURSIVE IntGridScriptsFrom(_, _, _, _, _)
\* the inner loop: every registered handler, for cell p
IntGridScriptsFrom(h, layer, p, levelPos, w) ==
    IF h > Len(intGridTiles) THEN w
    ELSE IntGridScriptsFrom(h + 1, layer, p, levelPos,
             [w EXCEPT !.calls =
                 Append(@, Event("intGrid", intGridTiles[h], None, layer.identifier,
                                 IntGridPos(layer, p, levelPos),
                                 layer.intGridCsv[p + 1], NoFields, 0))])

\* One turn of the outer loop of loadIntGridTiles: the cell at p.
IntGridCell(layer, p, levelPos, w) == IntGridScriptsFrom(1, layer, p, levelPos, w)

RECURSIVE LoadIntGridTilesFrom(_, _, _, _)
LoadIntGridTilesFrom(p, layer, levelPos, w) ==
    IF p >= Len(layer.intGridCsv) THEN w
    ELSE LoadIntGridTilesFrom(p + 1, layer, levelPos, IntGridCell(layer, p, levelPos, w))

LoadIntGridTiles(layer, levelPos, w) == LoadIntGridTilesFrom(0, layer, levelPos, w)

\* ---------------------------------------------------------------- loadTiles
RECURSIVE LoadTilesFrom(_, _, _, _, _)
LoadTilesFrom(i, tiles, layer, levelPos, w) ==
    IF i > Len(tiles) THEN w
    ELSE IF ~AssetExists(assets, layer.tilesetRelPath)   \* getSprite found nothing
         THEN ThrowError(w, "Sprite not found", layer.identifier)
         ELSE LoadTilesFrom(i + 1, tiles, layer, levelPos,
                  OnDraw(w, "tile", layer.identifier,
                         Vec2Add(Vec2(tiles[i].px[1], tiles[i].px[2]), levelPos)))

LoadTiles(layer, levelPos, w) ==
    LET tiles == IF layer.type = "Tiles" THEN layer.gridTiles
                 ELSE IF layer.type = "AutoLayer" THEN layer.autoLayerTiles
                 ELSE <<>>
    IN  IF ~AssetExists(assets, layer.tilesetRelPath)
        THEN ThrowError(w, "Tileset not found", layer.identifier)
        ELSE LoadTilesFrom(1, tiles, layer, levelPos, w)

\* -------------------------------------------------------------------- spawn
RECURSIVE InsertByDepth(_, _)
\* level goes after every level of sorted that does not compare greater
InsertByDepth(sorted, level) ==
    IF sorted = <<>> THEN <<level>>
    ELSE IF Head(sorted).worldDepth - level.worldDepth > 0
         THEN <<level>> \o sorted
         ELSE <<Head(sorted)>> \o InsertByDepth(Tail(sorted), level)

RECURSIVE SortFrom(_, _, _)
SortFrom(i, levels, sorted) ==
    IF i > Len(levels) THEN sorted
    ELSE SortFrom(i + 1, levels, InsertByDepth(sorted, levels[i]))

\* levels.sort((a, b) => a.worldDepth - b.worldDepth): Array.prototype.sort is stable
SortByDepth(levels) == SortFrom(1, levels, <<>>)

RECURSIVE LinearBefore(_, _, _, _)
\* for (const l of levels) { if (l.iid == level.iid) break; pos += size; pos += offset }
LinearBefore(i, levels, level, horizontal) ==
    IF i > Len(levels) \/ levels[i].iid = level.iid THEN 0
    ELSE (IF horizontal THEN levels[i].pxWid ELSE levels[i].pxHei) + levelOffset
         + LinearBefore(i + 1, levels, level, horizontal)

RECURSIVE LinearBeforeSizesOnly(_, _, _, _)
LinearBeforeSizesOnly(i, levels, level, horizontal) ==
    IF i > Len(levels) \/ levels[i].iid = level.iid THEN 0
    ELSE (IF horizontal THEN levels[i].pxWid ELSE levels[i].pxHei)
         + LinearBeforeSizesOnly(i + 1, levels, level, horizontal)

\* LevelPos leaving this.levelOffset out of the accumulation.
LevelPosWithoutOffset(level, levels, lay) ==
    IF lay = "LinearHorizontal"
    THEN Vec2(LinearBeforeSizesOnly(1, levels, level, TRUE), 0)
    ELSE IF lay = "LinearVertical"
    THEN Vec2(0, LinearBeforeSizesOnly(1, levels, level, FALSE))
    ELSE Vec2(level.worldX, level.worldY)

\* levelPos of level, one of levels, under layout lay
LevelPos(level, levels, lay) ==
    IF lay = "LinearHorizontal" THEN Vec2(LinearBefore(1, levels, level, TRUE), 0)
    ELSE IF lay = "LinearVertical" THEN Vec2(0, LinearBefore(1, levels, level, FALSE))
    ELSE Vec2(level.worldX, level.worldY)

\* level.layerInstances?.reverse() || []: reverses the level's own array
ReverseLayers(level) ==
    IF level.layersNull THEN level ELSE [level EXCEPT !.layerInstances = Reverse(@)]

\* One turn of the loop over the layers of a level.
SpawnLayer(layer, levelPos, w) ==
    LET w0 == [w EXCEPT !.walked = Append(@, <<w.level.iid, layer.identifier>>)]
        w1 == IF layer.type = "Entities" THEN LoadLayerEntities(layer, levelPos, w0) ELSE w0
        w2 == IF layer.type = "IntGrid" THEN LoadIntGridTiles(layer, levelPos, w1) ELSE w1
    IN  IF layer.type = "Tiles" \/ layer.type = "AutoLayer"
        THEN LoadTiles(layer, levelPos, w2)
        ELSE w2

RECURSIVE SpawnLayersFrom(_, _, _, _)
SpawnLayersFrom(i, layers, levelPos, w) ==
    IF i > Len(layers) THEN w
    ELSE SpawnLayersFrom(i + 1, layers, levelPos, SpawnLayer(layers[i], levelPos, w))

\* One turn of the loop over the sorted levels; the result's level field is
\* the level as the turn leaves it.
SpawnLevel(level, levels, lay, w) ==
    LET levelPos == LevelPos(level, levels, lay)
        w1 == OnDraw(w, "rect", level.iid, levelPos)
        w2 == IF level.bgRelPath THEN OnDraw(w1, "bgImage", level.iid, levelPos) ELSE w1
        reversed == ReverseLayers(level)
    IN  SpawnLayersFrom(1, reversed.layerInstances, levelPos,
                        [w2 EXCEPT !.level = reversed])

RECURSIVE SpawnLevelsFrom(_, _, _, _)
SpawnLevelsFrom(i, levels, lay, w) ==
    IF i > Len(levels) THEN [levels |-> levels, w |-> w]
    ELSE LET w1 == SpawnLevel(levels[i], levels, lay, w)
         IN  SpawnLevelsFrom(i + 1, [levels EXCEPT ![i] = w1.level], lay, w1)

\* this.worlds as spawn() sets it; the synthesized world shares data.levels
Worlds(doc) ==
    IF Len(doc.worlds) = 0
    THEN << [worldLayout |-> doc.worldLayout, levels |-> doc.levels] >>
    ELSE doc.worlds

\* The walk of spawn() from the sort to postProcessEntitiesOnSpawn, over the
\* active world: the levels as it leaves them, and the walk state.
SpawnWalk(world) ==
    LET start == [calls |-> <<>>, draws |-> draws,
                  ppe |-> postProcessEntities, objs |-> 0, walked |-> <<>>,
                  level |-> Undefined]
        done  == SpawnLevelsFrom(1, SortByDepth(world.levels), world.worldLayout, start)
    IN  [levels |-> done.levels, w |-> PostProcessEntitiesOnSpawn(done.w)]

Spawn ==
    /\ nSpawn < MaxSpawns
    /\ nSpawn' = nSpawn + 1
    /\ IF data = Undefined
       THEN /\ calls' = ThrowError([calls |-> <<>>], "LDTK data not loaded", None).calls
            /\ walked' = <<>>
            /\ spawnResult' = "notLoaded"
            /\ UNCHANGED <<data, layout, draws, postProcessEntities>>
       ELSE IF worldIndex + 1 > Len(Worlds(data))
       THEN \* this.world is undefined: reading its worldLayout raises a TypeError
            /\ calls' = <<>>
            /\ walked' = <<>>
            /\ spawnResult' = "threw"
            /\ UNCHANGED <<data, layout, draws, postProcessEntities>>
       ELSE LET world == Worlds(data)[worldIndex + 1]
            IN  \E r \in {SpawnWalk(world)} :      \* the walk, made once
                /\ layout' = world.worldLayout
                /\ data' = IF Len(data.worlds) = 0
                           THEN [data EXCEPT !.levels = r.levels]
                           ELSE [data EXCEPT !.worlds[worldIndex + 1].levels = r.levels]
                /\ calls' = r.w.calls
                /\ walked' = r.w.walked
                /\ draws' = r.w.draws
                /\ postProcessEntities' = r.w.ppe
                /\ spawnResult' = "done"
    /\ UNCHANGED <<file, options, worldIndex, levelOffset, assets, entities,
                   intGridTiles, loadPc, loadIdx, fetched, ldtklLevels, loadResult,
                   everLoaded, loadErrors, lastRegistered, postInitDropped, nLoad>>

\* ------------------------------------------------------------- registration
TypeNames == {"Player", "Enemy"}

InitFns == {"initA"}

PostInitFns == {"postA"}

Handlers == {"gridA"}

\* RegisterEntity assigning init and postInit into the entry already there, so
\* that a call without postInit keeps the postInit of the call before it.
RegisterEntityKeepingPostInit(entityName, initializer, postInit) ==
    /\ nSpawn = 0
    /\ entities' = [n \in DOMAIN entities \cup {entityName} |->
                       IF n = entityName
                       THEN [init |-> initializer,
                             postInit |-> IF postInit # None THEN postInit
                                          ELSE IF entityName \in DOMAIN entities
                                               THEN entities[entityName].postInit
                                               ELSE None]
                       ELSE entities[n]]
    /\ lastRegistered' = [n \in DOMAIN lastRegistered \cup {entityName} |->
                             IF n = entityName
                             THEN [init |-> initializer, postInit |-> postInit]
                             ELSE lastRegistered[n]]
    /\ postInitDropped' =
          IF postInit # None THEN postInitDropped \ {entityName}
          ELSE IF entityName \in DOMAIN lastRegistered
                  /\ lastRegistered[entityName].postInit # None
               THEN postInitDropped \cup {entityName}
               ELSE postInitDropped
    /\ UNCHANGED <<file, options, worldIndex, levelOffset, data, assets, intGridTiles,
                   postProcessEntities, layout, loadPc, loadIdx, fetched, ldtklLevels,
                   loadResult, everLoaded, calls, walked, loadErrors, draws, spawnResult,
                   nSpawn, nLoad>>

\* Registrations are explored before the first spawn(), as the remarks on
\* spawn() ask of the host.  lastRegistered and postInitDropped record the
\* calls the host made.
RegisterEntity(entityName, initializer, postInit) ==
    /\ nSpawn = 0
    /\ entities' = [n \in DOMAIN entities \cup {entityName} |->
                       IF n = entityName
                       THEN [init |-> initializer,
                             postInit |-> IF postInit # None THEN postInit ELSE None]
                       ELSE entities[n]]
    /\ lastRegistered' = [n \in DOMAIN lastRegistered \cup {entityName} |->
                             IF n = entityName
                             THEN [init |-> initializer, postInit |-> postInit]
                             ELSE lastRegistered[n]]
    /\ postInitDropped' =
          IF postInit # None THEN postInitDropped \ {entityName}
          ELSE IF entityName \in DOMAIN lastRegistered
                  /\ lastRegistered[entityName].postInit # None
               THEN postInitDropped \cup {entityName}
               ELSE postInitDropped
    /\ UNCHANGED <<file, options, worldIndex, levelOffset, data, assets, intGridTiles,
                   postProcessEntities, layout, loadPc, loadIdx, fetched, ldtklLevels,
                   loadResult, everLoaded, calls, walked, loadErrors, draws, spawnResult,
                   nSpawn, nLoad>>

RegisterIntGrid(initializer) ==
    /\ nSpawn = 0
    /\ Len(intGridTiles) < MaxHandlers
    /\ intGridTiles' = Append(intGridTiles, initializer)
    /\ UNCHANGED <<file, options, worldIndex, levelOffset, data, assets, entities,
                   postProcessEntities, layout, loadPc, loadIdx, fetched, ldtklLevels,
                   loadResult, everLoaded, calls, walked, loadErrors, draws, spawnResult,
                   lastRegistered, postInitDropped, nSpawn, nLoad>>

\* --------------------------------------------------------------------- load
\* this.throwError(error) in a load: one report, and the load returns
ReportLoadError(log, msg) == Append(log, msg)

\* What every step of a load leaves alone.
LoadFrame ==
    UNCHANGED <<file, options, worldIndex, levelOffset, entities, intGridTiles,
                postProcessEntities, layout, calls, walked, draws, spawnResult,
                lastRegistered, postInitDropped, nSpawn>>

\* loadFromObject up to its first await, or to its end when it has none
BeginLoadFromObject(ldtkProject) ==
    /\ data' = ldtkProject
    /\ IF ldtkProject.externalLevels /\ Len(ldtkProject.levels) > 0
       THEN /\ ldtklLevels' = [i \in DOMAIN ldtkProject.levels |->
                                  ldtkProject.levels[i].externalRelPath]
            /\ fetched' = <<>>
            /\ loadIdx' = 1
            /\ loadPc' = "levelFetch"
            /\ loadResult' = "pending"
            /\ UNCHANGED <<assets, everLoaded>>
       ELSE /\ assets' = LoadTileSets(ldtkProject, assets)
            /\ loadPc' = "idle"
            /\ loadResult' = "ok"
            /\ everLoaded' = TRUE
            /\ UNCHANGED <<ldtklLevels, fetched, loadIdx>>

\* The host parses or copies the project afresh for each call.
LoadFromObject ==
    /\ nSpawn < MaxSpawns
    /\ nLoad < MaxLoads
    /\ loadPc = "idle"
    /\ nLoad' = nLoad + 1
    /\ loadErrors' = <<>>
    /\ BeginLoadFromObject(file)
    /\ LoadFrame

\* await safe(fetch(this.rootUrl + level)), with its outcome
LevelFetchDone(ok) ==
    /\ loadPc = "levelFetch"
    /\ IF ok
       THEN /\ loadPc' = "levelJson"
            /\ UNCHANGED <<loadErrors, loadResult>>
       ELSE /\ loadErrors' = ReportLoadError(loadErrors, "level fetch failed")
            /\ loadPc' = "idle"
            /\ loadResult' = "levelFetchError"
    /\ UNCHANGED <<data, assets, ldtklLevels, fetched, loadIdx, everLoaded, nLoad>>
    /\ LoadFrame

\* await data.json(), with its outcome, and the rest of the loop turn
LevelJsonDone(ok) ==
    /\ loadPc = "levelJson"
    /\ IF ~ok
       THEN \* the rejection leaves loadFromObject: nothing catches it
            /\ loadPc' = "idle"
            /\ loadResult' = "rejected"
            /\ UNCHANGED <<data, assets, fetched, loadIdx, everLoaded>>
       ELSE LET levels == Append(fetched, LevelFile(ldtklLevels[loadIdx]))
            IN  IF loadIdx < Len(ldtklLevels)
                THEN /\ fetched' = levels
                     /\ loadIdx' = loadIdx + 1
                     /\ loadPc' = "levelFetch"
                     /\ UNCHANGED <<data, assets, loadResult, everLoaded>>
                ELSE /\ fetched' = levels
                     /\ data' = [data EXCEPT !.levels = levels]
                     /\ assets' = LoadTileSets(data, assets)
                     /\ loadPc' = "idle"
                     /\ loadResult' = "ok"
                     /\ everLoaded' = TRUE
                     /\ UNCHANGED loadIdx
    /\ UNCHANGED <<loadErrors, ldtklLevels, nLoad>>
    /\ LoadFrame

LoadFromURL ==
    /\ nSpawn < MaxSpawns
    /\ nLoad < MaxLoads
    /\ loadPc = "idle"
    /\ nLoad' = nLoad + 1
    /\ loadPc' = "urlFetch"
    /\ loadResult' = "pending"
    /\ loadErrors' = <<>>
    /\ UNCHANGED <<data, assets, ldtklLevels, fetched, loadIdx, everLoaded>>
    /\ LoadFrame

\* await safe(fetch(url)), with its outcome
UrlFetchDone(ok) ==
    /\ loadPc = "urlFetch"
    /\ IF ok
       THEN /\ loadPc' = "urlJson"
            /\ UNCHANGED <<loadErrors, loadResult>>
       ELSE /\ loadErrors' = ReportLoadError(loadErrors, "fetch failed")
            /\ loadPc' = "idle"
            /\ loadResult' = "fetchError"
    /\ UNCHANGED <<data, assets, ldtklLevels, fetched, loadIdx, everLoaded, nLoad>>
    /\ LoadFrame

\* await safe(data.json()), with its outcome, then loadFromObject(json)
UrlJsonDone(ok) ==
    /\ loadPc = "urlJson"
    /\ IF ok
       THEN /\ BeginLoadFromObject(file)
            /\ UNCHANGED loadErrors
       ELSE /\ loadErrors' = ReportLoadError(loadErrors, "parse failed")
            /\ loadPc' = "idle"
            /\ loadResult' = "parseError"
            /\ UNCHANGED <<data, assets, ldtklLevels, fetched, loadIdx, everLoaded>>
    /\ UNCHANGED nLoad
    /\ LoadFrame

\* -------------------------------------------------------------- constructor
OptionSets == [world : {<<>>, <<1>>}, levelOffset : {<<>>, <<0>>, <<10>>}]

\* The layouts under which spawn() reads this.levelOffset.
LinearLayouts == {"LinearHorizontal", "LinearVertical"}

ProjectLayout(doc) ==
    IF Len(doc.worlds) = 0 THEN doc.worldLayout ELSE doc.worlds[1].worldLayout

\* A levelOffset is given for the projects whose layout reads it, and not
\* together with a world index.
Init ==
    /\ file \in Projects
    /\ options \in OptionSets
    /\ options.levelOffset # <<>> => /\ ProjectLayout(file) \in LinearLayouts
                                     /\ options.world = <<>>
    /\ worldIndex = IF Truthy(options.world) THEN options.world[1] ELSE 0
    /\ levelOffset = IF Truthy(options.levelOffset) THEN options.levelOffset[1]
                     ELSE DefaultLevelOffset
    /\ data = Undefined
    /\ assets = <<>>
    /\ entities = [n \in {} |-> None]
    /\ lastRegistered = [n \in {} |-> None]
    /\ postInitDropped = {}
    /\ intGridTiles = <<>>
    /\ postProcessEntities = <<>>
    /\ layout = None
    /\ loadPc = "idle"
    /\ loadIdx = 0
    /\ fetched = <<>>
    /\ ldtklLevels = <<>>
    /\ loadResult = "none"
    /\ everLoaded = FALSE
    /\ calls = <<>>
    /\ walked = <<>>
    /\ loadErrors = <<>>
    /\ draws = 0
    /\ spawnResult = "none"
    /\ nSpawn = 0
    /\ nLoad = 0

Next ==
    \/ \E n \in TypeNames, i \in InitFns, p \in PostInitFns \cup {None} :
          RegisterEntity(n, i, p)
    \/ \E h \in Handlers : RegisterIntGrid(h)
    \/ LoadFromObject
    \/ LoadFromURL
    \/ \E ok \in BOOLEAN : UrlFetchDone(ok)
    \/ \E ok \in BOOLEAN : UrlJsonDone(ok)
    \/ \E ok \in BOOLEAN : LevelFetchDone(ok)
    \/ \E ok \in BOOLEAN : LevelJsonDone(ok)
    \/ Spawn

Spec == Init /\ [][Next]_vars

\* ================================================================== claims
\* A step that is one spawn() call.
IsSpawn == nSpawn' = nSpawn + 1

\* What a spawn() that finds no data reports, and all it does.
NotLoadedReport == << ErrorEvent("LDTK data not loaded", None) >>

\* The indices of the events of cs of one kind.
OfKind(cs, kind) == { i \in DOMAIN cs : cs[i].kind = kind }

\* The library level with this iid: the level as its document declares it.
Declared(iid) == CHOOSE l \in Range(LevelLib) : l.iid = iid

\* The levels of the world spawn() walks in doc.
ActiveLevels(doc) == Worlds(doc)[worldIndex + 1].levels

\* The entity instances of the Entities layers of a list of levels.
InstancesOf(levels) ==
    UNION { UNION { Range(level.layerInstances[k].entityInstances) :
                      k \in { k \in DOMAIN level.layerInstances :
                                level.layerInstances[k].type = "Entities" } } :
            level \in Range(levels) }

\* C1: a spawn() on an instance on which no load has succeeded (and none is in
\* flight) reports the one not-loaded error and places nothing: no init,
\* post-init or IntGrid call, and no draw callback registered.
C1_SpawnWithoutLoad ==
    [][ (IsSpawn /\ ~everLoaded /\ loadPc = "idle")
            => (calls' = NotLoadedReport /\ draws' = draws) ]_vars

\* C2: in every IntGrid layer a spawn() walks, cells of value zero are skipped:
\* no handler receives a tile of value 0, and the layer's handler invocations
\* number (registered handlers) x (non-zero cells of the layer).
C2_ZeroCellsSkipped ==
    [][ (IsSpawn /\ spawnResult' = "done") =>
          /\ \A i \in OfKind(calls', "intGrid") : calls'[i].value # 0
          /\ \A k \in DOMAIN walked' :
                LET layer == CHOOSE l \in Range(Declared(walked'[k][1]).layerInstances) :
                                l.identifier = walked'[k][2]
                    nonZero == { p \in DOMAIN layer.intGridCsv : layer.intGridCsv[p] # 0 }
                IN  layer.type = "IntGrid" =>
                      Cardinality({ i \in OfKind(calls', "intGrid") :
                                      calls'[i].id = layer.identifier })
                        = Len(intGridTiles) * Cardinality(nonZero) ]_vars

\* C3: in one spawn() pass every entity instance of every Entities layer of the
\* active world causes exactly one call of the init registered for its type
\* name; an instance of an unregistered name causes no init call and exactly
\* one reported error, and the walk goes on to the remaining instances.
C3_OneInitPerEntity ==
    [][ (IsSpawn /\ spawnResult' = "done") =>
          LET instances == InstancesOf(ActiveLevels(data'))
              inits(e)  == { i \in OfKind(calls', "init") : calls'[i].id = e.iid }
              known     == { e \in instances : e.identifier \in DOMAIN entities }
              unknown   == instances \ known
              errs(n)   == { i \in OfKind(calls', "error") :
                               /\ calls'[i].name = "No entity registered"
                               /\ calls'[i].id = n }
          IN  /\ \A e \in known :
                    /\ Cardinality(inits(e)) = 1
                    /\ \A i \in inits(e) : /\ calls'[i].fn = entities[e.identifier].init
                                           /\ calls'[i].name = e.identifier
              /\ \A e \in unknown : inits(e) = {}
              /\ \A n \in { e.identifier : e \in unknown } :
                    Cardinality(errs(n)) =
                        Cardinality({ e \in unknown : e.identifier = n })
              /\ Cardinality(OfKind(calls', "init")) = Cardinality(known) ]_vars

\* C3's case: a pass in which an unregistered instance was reported and an
\* instance met after it was still initialised.
C3_Witness ==
    /\ spawnResult = "done"
    /\ \E i, j \in DOMAIN calls :
          /\ i < j
          /\ calls[i].kind = "error" /\ calls[i].name = "No entity registered"
          /\ calls[j].kind = "init"

\* The first init call of cs made for the instance id.
FirstInit(cs, id) ==
    CHOOSE i \in OfKind(cs, "init") :
        /\ cs[i].id = id
        /\ \A j \in OfKind(cs, "init") : cs[j].id = id => i <= j

\* No post-init call of cs comes before a call, report or draw registration
\* of the walk.
PostInitsLast(cs) ==
    \A i, j \in DOMAIN cs : (i < j /\ cs[i].kind = "postInit") => cs[j].kind = "postInit"

\* C4 as claimed: in one spawn() pass no post-init is called before the last
\* init call, IntGrid call and draw registration of the walk, and the
\* post-inits are called in the order in which their instances were first
\* met, whatever the instance ids are.
C4_PostInitEncounterOrder ==
    spawnResult = "done" =>
        /\ PostInitsLast(calls)
        /\ \A i, j \in OfKind(calls, "postInit") :
              i < j => FirstInit(calls, calls[i].id) < FirstInit(calls, calls[j].id)

\* C4 as amended: no post-init is called before the end of the walk; the
\* post-inits of the instances whose id is a canonical array index are called
\* first, in ascending numeric order of the id, and after them the post-inits
\* of the other instances (UUID ids among them) in the order in which the
\* instances were first met.
C4_PostInitKeyOrder ==
    spawnResult = "done" =>
        /\ PostInitsLast(calls)
        /\ \A i, j \in OfKind(calls, "postInit") :
              i < j =>
                LET a == calls[i].id
                    b == calls[j].id
                IN  IF IsArrayIndex(b)
                    THEN IsArrayIndex(a) /\ ArrayIndex[a] < ArrayIndex[b]
                    ELSE IsArrayIndex(a)
                         \/ FirstInit(calls, a) < FirstInit(calls, b)

\* C4's case: a pass with init calls before the post-inits, in which an
\* array-index id met later was post-initialised before two UUID ids, which
\* kept their order of encounter.
C4_Witness ==
    /\ spawnResult = "done"
    /\ \E i, j, k \in OfKind(calls, "postInit") :
          /\ i < j /\ j < k
          /\ IsArrayIndex(calls[i].id)
          /\ ~IsArrayIndex(calls[j].id) /\ ~IsArrayIndex(calls[k].id)
          /\ FirstInit(calls, calls[j].id) < FirstInit(calls, calls[i].id)
          /\ FirstInit(calls, calls[j].id) < FirstInit(calls, calls[k].id)

\* C5: on every spawn(), a second or later one included, the layers of each
\* level are processed in the reverse of the order in which the loaded
\* document declares them.
C5_LayersReversedEverySpawn ==
    spawnResult = "done" =>
        \A k \in DOMAIN walked :
            LET mine == SelectSeq(walked, LAMBDA p : p[1] = walked[k][1])
                decl == Declared(walked[k][1]).layerInstances
            IN  /\ Len(mine) = Len(decl)
                /\ \A m \in DOMAIN mine : mine[m][2] = decl[Len(decl) + 1 - m].identifier

\* C6: when the fetch of an external level fails, the load is not applied and
\* the instance stays unloaded: a following spawn() reports the not-loaded
\* error and places nothing.
C6_FailedSplitLoadLeavesUnloaded ==
    [][ (IsSpawn /\ loadResult = "levelFetchError" /\ ~everLoaded)
            => (data = Undefined /\ calls' = NotLoadedReport /\ draws' = draws) ]_vars

\* C7: no load failure is raised to the caller: a load that fails at the
\* project fetch, the project parse, an external-level fetch or an
\* external-level parse reports one error and completes normally.
C7_LoadFailuresReported ==
    /\ loadResult # "rejected"
    /\ (loadPc = "idle" /\ loadResult \notin {"none", "ok"}) => Len(loadErrors) = 1

\* The value a field list gives to a name (the list's last entry of that name).
ValueIn(fields, n) ==
    fields[CHOOSE i \in DOMAIN fields :
              /\ fields[i].identifier = n
              /\ \A j \in DOMAIN fields : fields[j].identifier = n => j <= i].value

Names(fields) == { fields[i].identifier : i \in DOMAIN fields }

\* shared overlaid with own: on a name of both, own wins
Overlay(shared, own) ==
    [n \in Names(shared) \cup Names(own) |->
        IF n \in Names(own) THEN ValueIn(own, n) ELSE ValueIn(shared, n)]

\* C8: the field mapping of the entity passed to a callback is exactly the
\* shared fields of its level overlaid with the instance's own fields, with
\* nothing of another instance or of an earlier pass in it.
C8_FieldsAreSharedPlusOwn ==
    spawnResult = "done" =>
        \A i \in OfKind(calls, "init") \cup OfKind(calls, "postInit") :
            \E level \in Range(LevelLib) :
                \E e \in InstancesOf(<<level>>) :
                    /\ e.iid = calls[i].id
                    /\ calls[i].fields = Overlay(level.fieldInstances, e.fieldInstances)

\* How many levels of lv come before lv[i] in ascending depth, ties in
\* document order.
Rank(lv, i) ==
    Cardinality({ j \in DOMAIN lv :
                    \/ lv[j].worldDepth < lv[i].worldDepth
                    \/ (lv[j].worldDepth = lv[i].worldDepth /\ j < i) })

RECURSIVE SumOf(_, _)
\* the sum of f over the set S
SumOf(f, S) ==
    IF S = {} THEN 0
    ELSE LET x == CHOOSE x \in S : TRUE IN f[x] + SumOf(f, S \ {x})

\* The indices of the background rectangles of cs (one per level walked).
Rects(cs) == { i \in OfKind(cs, "draw") : cs[i].name = "rect" }

\* C9: under the linear-horizontal layout the levelPos of a level is (X, 0),
\* X the sum of (pixel width + the instance's level offset) over the levels
\* before it in ascending depth, ties in document order; under
\* linear-vertical it is (0, Y) with pixel heights; worldX and worldY are not
\* used.  The levels are walked in that order.
C9_LinearLayoutPositions ==
    (spawnResult = "done" /\ layout \in LinearLayouts) =>
        LET lv     == ActiveLevels(file)
            size   == [j \in DOMAIN lv |->
                         (IF layout = "LinearHorizontal" THEN lv[j].pxWid ELSE lv[j].pxHei)
                         + levelOffset]
            before(i) == { j \in DOMAIN lv : Rank(lv, j) < Rank(lv, i) }
            along(i)  == SumOf(size, before(i))
            rect(i)   == { r \in Rects(calls) : calls[r].id = lv[i].iid }
        IN  /\ Cardinality(Rects(calls)) = Len(lv)
            /\ \A i \in DOMAIN lv :
                  /\ Cardinality(rect(i)) = 1
                  /\ \A r \in rect(i) :
                        /\ calls[r].pos = IF layout = "LinearHorizontal"
                                          THEN Vec2(along(i), 0)
                                          ELSE Vec2(0, along(i))
                        /\ Cardinality({ q \in Rects(calls) : q < r }) = Rank(lv, i)

\* C9's case: levels of widths 100, 150 and 200 laid out horizontally with
\* offset 10, whose document order is not their depth order, placed at
\* x = 0, 110 and 270.
C9_Witness ==
    /\ spawnResult = "done"
    /\ layout = "LinearHorizontal"
    /\ levelOffset = 10
    /\ file.levels[1].iid = "lvC"
    /\ \E a, b, c \in Rects(calls) :
          /\ calls[a].id = "lvA" /\ calls[a].pos = Vec2(0, 0)
          /\ calls[b].id = "lvB" /\ calls[b].pos = Vec2(110, 0)
          /\ calls[c].id = "lvC" /\ calls[c].pos = Vec2(270, 0)

\* C10: once a load has completed, no later operation changes the loaded
\* document: a spawn() leaves the order of the level lists, the order of each
\* level's layers and each level's shared fields as the load left them.
C10_DocumentUnchangedBySpawn ==
    [][ (IsSpawn /\ loadResult = "ok" /\ loadPc = "idle") => data' = data ]_vars

\* C11: each type name maps to the init/post-init pair of the most recent
\* registerEntity call for it, and a spawn() uses only that pair: every init
\* and post-init call is the function the most recent call for the type gave,
\* and a type whose most recent call gave no post-init gets no post-init call,
\* whatever an earlier registration of the name had.
C11_LatestRegistrationWins ==
    /\ DOMAIN entities = DOMAIN lastRegistered
    /\ \A n \in DOMAIN entities :
          /\ entities[n].init = lastRegistered[n].init
          /\ entities[n].postInit = lastRegistered[n].postInit
    /\ spawnResult = "done" =>
          /\ \A i \in OfKind(calls, "init") :
                /\ calls[i].name \in DOMAIN lastRegistered
                /\ calls[i].fn = lastRegistered[calls[i].name].init
          /\ \A i \in OfKind(calls, "postInit") :
                /\ calls[i].name \in DOMAIN lastRegistered
                /\ lastRegistered[calls[i].name].postInit # None
                /\ calls[i].fn = lastRegistered[calls[i].name].postInit

\* C11's case: a pass that initialised an instance of a type registered with a
\* post-init first and without one last, and called no post-init for the
\* type, while calling the post-init of another type.
C11_Witness ==
    /\ spawnResult = "done"
    /\ \E n \in postInitDropped :
          /\ \E i \in OfKind(calls, "init") : calls[i].name = n
          /\ \A i \in OfKind(calls, "postInit") : calls[i].name # n
          /\ \E i \in OfKind(calls, "postInit") : calls[i].name # n

\* C12: after a load has completed successfully every tileset definition of
\* the document is registered, and the two lookups agree: for every tileset
\* definition t, the asset found by t's uid is named by t's relative path, and
\* the asset found by that path has t's uid.
C12_TilesetLookupsConsistent ==
    (loadResult = "ok" /\ loadPc = "idle") =>
        \A k \in DOMAIN data.defs.tilesets :
            LET t == data.defs.tilesets[k]
            IN  /\ GetAssetByUid(assets, t.uid) # Undefined
                /\ GetAssetByUid(assets, t.uid).name = t.relPath
                /\ GetAsset(assets, t.relPath) # Undefined
                /\ GetAsset(assets, t.relPath).uid = t.uid

\* The entity instances of the layers a pass walked.
WalkedInstances(w) ==
    UNION { Range((CHOOSE l \in Range(Declared(w[k][1]).layerInstances) :
                      l.identifier = w[k][2]).entityInstances) : k \in DOMAIN w }

\* C13: the deferred post-init table is empty whenever spawn() has returned,
\* and each pass calls post-init exactly once for each instance it placed
\* whose type has a post-init registered, and for no other: every post-init
\* call receives the entity object (same object, name, position and fields)
\* that the init call of that instance received earlier in the same pass.
C13_DeferredTableCleared ==
    /\ postProcessEntities = <<>>
    /\ spawnResult = "done" =>
          LET instances == WalkedInstances(walked)
              deferred  == { e \in instances :
                               /\ e.identifier \in DOMAIN entities
                               /\ entities[e.identifier].postInit # None }
              posts(e)  == { j \in OfKind(calls, "postInit") : calls[j].id = e.iid }
          IN  /\ \A e \in instances :
                    Cardinality(posts(e)) = IF e \in deferred THEN 1 ELSE 0
              /\ Cardinality(OfKind(calls, "postInit")) = Cardinality(deferred)
              /\ \A j \in OfKind(calls, "postInit") :
                    \E i \in OfKind(calls, "init") :
                        /\ i < j
                        /\ calls[i].id = calls[j].id
                        /\ calls[i].obj = calls[j].obj
                        /\ calls[i].name = calls[j].name
                        /\ calls[i].pos = calls[j].pos
                        /\ calls[i].fields = calls[j].fields

\* C13's case: a second pass over the loaded document (the layers of lvA
\* walked in the order the first pass left them in) that called post-inits.
C13_Witness ==
    /\ spawnResult = "done"
    /\ nSpawn = 2
    /\ OfKind(calls, "postInit") # {}
    /\ \E a, b \in DOMAIN walked :
          /\ a < b
          /\ walked[a] = <<"lvA", "EntsA">>
          /\ walked[b] = <<"lvA", "GridA">>

\* C14: a spawn() on a loaded project whose world index names no world (of the
\* declared worlds, or of the one world synthesized for a document declaring
\* none) raises no exception: it reports the failure through the error
\* logger, invokes no callback and registers no draw callback.
C14_MissingWorldReported ==
    [][ (/\ IsSpawn
         /\ loadResult = "ok" /\ loadPc = "idle"
         /\ worldIndex >= Len(Worlds(data)))
            => (/\ spawnResult' # "threw"
                /\ OfKind(calls', "error") # {}
                /\ OfKind(calls', "error") = DOMAIN calls'
                /\ draws' = draws) ]_vars

\* C15: under the two linear layouts the gap between a level and the level
\* placed after it is the levelOffset option given at construction whenever
\* one was given, 0 included, and the default 48 only when none was given.
C15_LevelOffsetOptionHonoured ==
    (spawnResult = "done" /\ layout \in LinearLayouts) =>
        LET given == IF options.levelOffset # <<>> THEN options.levelOffset[1]
                     ELSE DefaultLevelOffset
            along(r) == IF layout = "LinearHorizontal" THEN calls[r].pos.x
                        ELSE calls[r].pos.y
            size(r)  == IF layout = "LinearHorizontal" THEN Declared(calls[r].id).pxWid
                        ELSE Declared(calls[r].id).pxHei
        IN  \A r, q \in Rects(calls) :
                (r < q /\ \A m \in Rects(calls) : ~(r < m /\ m < q))
                    => along(q) - (along(r) + size(r)) = given

====
